---- MODULE Spec2Model ----
(***************************************************************************)
(* Model of the SendGrid -> Statsig webhook worker (src/src/index.ts, the  *)
(* current export at lines 204-413).                                       *)
(*                                                                         *)
(* Three specifications share the module:                                  *)
(*   Spec        one inbound request handled by fetch/processWebhook, with *)
(*               the outbound calls of postToScrapi as suspend points;     *)
(*   SpecExtract getExperimentDetails applied to a bounded set of events;  *)
(*   SpecHash    getHash executed statement by statement.                  *)
(*                                                                         *)
(* JavaScript strings are sequences of one-character strings; 32-bit words *)
(* are pairs <<high 16 bits, low 16 bits>>, so that every product stays    *)
(* inside the model checker's integers while wrapping exactly as Math.imul *)
(* does.                                                                   *)
(***************************************************************************)
EXTENDS Integers, Sequences, FiniteSets, TLC

VARIABLES
  method, apikey, body,      \* the inbound request
  pc,                        \* position of fetch/processWebhook
  events,                    \* processWebhook's local `events`
  calls,                     \* outbound fetch calls issued so far, in order
  response,                  \* status of the Response returned, 0 while none
  logged,                    \* number of console.log calls so far
  xevt, xres,                \* SpecExtract: argument and result
  htext, hidx, h1, h2,       \* SpecHash: getHash's text, i, h1, h2
  h1pre, h2pre,              \* SpecHash: h1, h2 as the loop left them
  hpc, hres                  \* SpecHash: position and returned string

vars == <<method, apikey, body, pc, events, calls, response, logged,
          xevt, xres, htext, hidx, h1, h2, h1pre, h2pre, hpc, hres>>

reqVars  == <<method, apikey, body, pc, events, calls, response, logged>>
extVars  == <<xevt, xres>>
hashVars == <<htext, hidx, h1, h2, h1pre, h2pre, hpc, hres>>

(***************************************************************************)
(* Bounds of the model.                                                    *)
(***************************************************************************)
MaxBatch == 2     \* longest array payload
MaxLen == 3       \* longest text hashed in SpecHash

(***************************************************************************)
(* JavaScript values.                                                      *)
(***************************************************************************)
Absent == [t |-> "undefined"]
JNull == [t |-> "null"]
JNum(n) == [t |-> "number", n |-> n]
JStr(s) == [t |-> "string", s |-> s]
JBool(b) == [t |-> "boolean", b |-> b]

IsStr(v) == v.t = "string"

\* typeof v
TypeOf(v) ==
  CASE v.t = "undefined" -> "undefined"
    [] v.t = "null" -> "object"
    [] v.t = "array" -> "object"
    [] v.t = "object" -> "object"
    [] OTHER -> v.t

\* ToBoolean(v), the test `!v` negates
Truthy(v) ==
  CASE v.t = "undefined" -> FALSE
    [] v.t = "null" -> FALSE
    [] v.t = "number" -> v.n # 0
    [] v.t = "string" -> v.s # <<>>
    [] v.t = "boolean" -> v.b
    [] OTHER -> TRUE

(***************************************************************************)
(* 32-bit arithmetic on words <<hi, lo>>.                                  *)
(***************************************************************************)
RECURSIVE XorBits(_, _, _)
XorBits(a, b, n) ==
  IF n = 0 THEN 0
  ELSE ((a + b) % 2) + 2 * XorBits(a \div 2, b \div 2, n - 1)

\* a ^ b
Xor(a, b) == <<XorBits(a[1], b[1], 16), XorBits(a[2], b[2], 16)>>

\* a >>> 16
Shr16(a) == <<0, a[1]>>

\* a >>> 13
Shr13(a) == <<a[1] \div 8192, (a[1] % 8192) * 8 + a[2] \div 8192>>

\* the 32-bit product of two 16-bit numbers, from 8-bit limbs
Mul16(x, y) ==
  LET x0 == x % 256
      x1 == x \div 256
      y0 == y % 256
      y1 == y \div 256
      mid == x1 * y0 + x0 * y1
      low == x0 * y0 + (mid % 256) * 256
  IN  <<(x1 * y1 + mid \div 256 + low \div 65536) % 65536, low % 65536>>

\* Math.imul(a, b): the low 32 bits of the product
Imul(a, b) ==
  LET ll == Mul16(a[2], b[2])
  IN  <<(ll[1] + Mul16(a[1], b[2])[2] + Mul16(a[2], b[1])[2]) % 65536, ll[2]>>

IsWord(a) == a[1] \in 0..65535 /\ a[2] \in 0..65535

(***************************************************************************)
(* getHash.                                                                *)
(***************************************************************************)
Seed == <<4679, 22416>>          \* 0x12475790
H1Init == <<57005, 48879>>       \* 0xdeadbeef
H2Init == <<16838, 52823>>       \* 0x41c6ce57
LoopMul1 == <<40503, 31153>>     \* 2654435761
LoopMul2 == <<24373, 25749>>     \* 1597334677
MixMul16 == <<34283, 51819>>     \* 2246822507
MixMul13 == <<49842, 44597>>     \* 3266489909

\* text.charCodeAt(i) for the characters the model uses
CharCode(c) ==
  CASE c = "a" -> 97
    [] c = "b" -> 98
    [] c = "@" -> 64
    [] c = "Z" -> 90

\* one lane of the final mix: imul(p ^ (p >>> 16), 2246822507) ^
\* imul(q ^ (q >>> 13), 3266489909)
MixLane(p, q) ==
  Xor(Imul(Xor(p, Shr16(p)), MixMul16), Imul(Xor(q, Shr13(q)), MixMul13))

\* FinalMix with both lanes reading the values the loop left
FinalMixFromPre(a, b) == <<MixLane(a, b), MixLane(b, a)>>

\* the two assignments of the final mix, in the order the code runs them:
\* the second reads the h1 the first has just written
FinalMix(a, b) ==
  LET n1 == MixLane(a, b)
  IN  <<n1, MixLane(b, n1)>>

HexDigits == <<"0", "1", "2", "3", "4", "5", "6", "7",
               "8", "9", "a", "b", "c", "d", "e", "f">>

RECURSIVE NibblesOf(_, _)
\* the n hexadecimal digits of v, most significant first
NibblesOf(v, n) ==
  IF n = 0 THEN <<>>
  ELSE Append(NibblesOf(v \div 16, n - 1), HexDigits[(v % 16) + 1])

RECURSIVE StripZeros(_)
StripZeros(s) ==
  IF Len(s) > 1 /\ s[1] = "0" THEN StripZeros(Tail(s)) ELSE s

\* (4294967296 * (2097151 & h2) + (h1 >>> 0)).toString(16)
HashToString(a, b) ==
  StripZeros(NibblesOf((b[1] % 32) * 65536 + b[2], 6)
             \o NibblesOf(a[1], 4) \o NibblesOf(a[2], 4))

\* one iteration of the loop over the code units
HashLoopStep(w1, w2, ch) ==
  <<Imul(Xor(w1, <<0, ch>>), LoopMul1), Imul(Xor(w2, <<0, ch>>), LoopMul2)>>

RECURSIVE HashLoop(_, _, _, _)
HashLoop(w1, w2, text, i) ==
  IF i > Len(text) THEN <<w1, w2>>
  ELSE LET n == HashLoopStep(w1, w2, CharCode(text[i]))
       IN  HashLoop(n[1], n[2], text, i + 1)

UnknownId == <<"u", "n", "k", "n", "o", "w", "n", "_", "i", "d">>

\* getHash(text), text a JavaScript value
getHash(text) ==
  IF ~IsStr(text) THEN UnknownId
  ELSE LET l == HashLoop(Xor(H1Init, Seed), Xor(H2Init, Seed), text.s, 1)
           m == FinalMix(l[1], l[2])
       IN  HashToString(m[1], m[2])

(***************************************************************************)
(* JavaScript objects, arrays and strings.                                 *)
(***************************************************************************)
Obj(f) == [t |-> "object", f |-> f]
Arr(a) == [t |-> "array", a |-> a]

\* the outcome of evaluating o.k when o is null: a TypeError is thrown
Thrown == [t |-> "TypeError"]

\* o.k for a value o that is not null or undefined
Get(o, k) ==
  IF o.t = "object" /\ k \in DOMAIN o.f THEN o.f[k] ELSE Absent

Upper == <<"A", "B", "C", "D", "E", "F", "G", "H", "I", "J", "K", "L", "M",
           "N", "O", "P", "Q", "R", "S", "T", "U", "V", "W", "X", "Y", "Z">>
Lower == <<"a", "b", "c", "d", "e", "f", "g", "h", "i", "j", "k", "l", "m",
           "n", "o", "p", "q", "r", "s", "t", "u", "v", "w", "x", "y", "z">>

LowerChar(c) ==
  IF \E i \in 1..26 : Upper[i] = c
  THEN Lower[CHOOSE i \in 1..26 : Upper[i] = c]
  ELSE c

\* s.toLowerCase()
ToLowerCase(s) == [i \in 1..Len(s) |-> LowerChar(s[i])]

RECURSIVE SplitFrom(_, _, _, _)
SplitFrom(s, sep, i, cur) ==
  IF i > Len(s) THEN <<cur>>
  ELSE IF s[i] = sep THEN <<cur>> \o SplitFrom(s, sep, i + 1, <<>>)
  ELSE SplitFrom(s, sep, i + 1, Append(cur, s[i]))

\* s.split(sep) for a one-character separator
Split(s, sep) == SplitFrom(s, sep, 1, <<>>)

RECURSIVE DecimalOf(_)
DecimalOf(n) ==
  IF n < 10 THEN <<HexDigits[n + 1]>>
  ELSE Append(DecimalOf(n \div 10), HexDigits[(n % 10) + 1])

\* JSON.stringify(v) for the non-string values the model puts in a field
JsonStringify(v) ==
  CASE v.t = "number" -> DecimalOf(v.n)
    [] v.t = "null" -> <<"n", "u", "l", "l">>
    [] v.t = "boolean" ->
         IF v.b THEN <<"t", "r", "u", "e">> ELSE <<"f", "a", "l", "s", "e">>

(***************************************************************************)
(* Conversion of the payload.                                              *)
(***************************************************************************)
SkippedFields == {"email", "timestamp", "event"}

normalizeMetadata(item) ==
  Obj([key \in (DOMAIN item.f) \ SkippedFields |->
         IF IsStr(item.f[key]) THEN item.f[key]
         ELSE JStr(JsonStringify(item.f[key]))])

\* the user object convertSingleEvent builds; stableID sits under user.user
UserOf(sid, email) ==
  Obj([userID |-> JStr(sid),
       email |-> email,
       user |-> Obj([customIDs |-> Obj([stableID |-> JStr(sid)])])])

\* convertSingleEvent(item): an event, null, or the TypeError of null.event
convertSingleEvent(item) ==
  IF TypeOf(item) # "object" THEN JNull
  ELSE IF item.t = "null" THEN Thrown
  ELSE IF ~Truthy(Get(item, "event")) THEN JNull
  ELSE Obj([eventName |-> Get(item, "event"),
            time |-> Get(item, "timestamp"),
            user |-> UserOf(getHash(Get(item, "email")), Get(item, "email")),
            metadata |-> normalizeMetadata(item)])

RECURSIVE ConvertLoop(_, _, _)
\* the for loop of convertToStatsigEvents from index ii on
ConvertLoop(a, ii, evs) ==
  IF ii > Len(a) THEN [threw |-> FALSE, events |-> evs]
  ELSE LET evt == convertSingleEvent(a[ii])
       IN  IF evt = Thrown THEN [threw |-> TRUE, events |-> evs]
           ELSE IF Truthy(evt) THEN ConvertLoop(a, ii + 1, Append(evs, evt))
           ELSE ConvertLoop(a, ii + 1, evs)

\* convertToStatsigEvents(payload): the list returned, or threw
convertToStatsigEvents(payload) ==
  IF payload.t = "array" THEN ConvertLoop(payload.a, 1, <<>>)
  ELSE ConvertLoop(<<payload>>, 1, <<>>)

(***************************************************************************)
(* Experiment extraction and exposures.                                    *)
(***************************************************************************)
Slash == "/"
TestLower == <<"t", "e", "s", "t">>
TestName == <<"T", "e", "s", "t">>
ControlLower == <<"c", "o", "n", "t", "r", "o", "l">>
ControlName == <<"C", "o", "n", "t", "r", "o", "l">>
Delivered == <<"d", "e", "l", "i", "v", "e", "r", "e", "d">>

\* ExperimentFromPath as it was before the variant was passed through:
\* every variant but test is Control
ExperimentFromPathTwoGroups(metadata) ==
  LET experimentPath == Get(metadata, "singlesend_name")
  IN  IF ~Truthy(experimentPath) \/ ~IsStr(experimentPath) THEN JNull
      ELSE LET paths == Split(experimentPath.s, Slash)
           IN  IF Len(paths) # 2 THEN JNull
               ELSE Arr(<<JStr(paths[1]),
                          JStr(IF ToLowerCase(paths[2]) = TestLower
                               THEN TestName ELSE ControlName)>>)

\* the fallback of getExperimentDetails: the path in singlesend_name
ExperimentFromPath(metadata) ==
  LET experimentPath == Get(metadata, "singlesend_name")
  IN  IF ~Truthy(experimentPath) \/ ~IsStr(experimentPath) THEN JNull
      ELSE LET paths == Split(experimentPath.s, Slash)
           IN  IF Len(paths) # 2 THEN JNull
               ELSE LET lowered == ToLowerCase(paths[2])
                        v1 == IF lowered = TestLower THEN TestName ELSE lowered
                        v2 == IF v1 = ControlLower THEN ControlName ELSE v1
                    IN  Arr(<<JStr(paths[1]), JStr(v2)>>)

\* getExperimentDetails with the precedence reversed: the path is read
\* before the two fields
getExperimentDetailsPathFirst(evt) ==
  IF ~Truthy(Get(evt, "user")) \/ ~Truthy(Get(evt, "metadata"))
     \/ TypeOf(Get(evt, "metadata")) # "object"
  THEN JNull
  ELSE LET metadata == Get(evt, "metadata")
           experimentName == Get(metadata, "statsig_experiment_name")
           variantName == Get(metadata, "statsig_variant_name")
       IN  IF ExperimentFromPath(metadata) # JNull
           THEN ExperimentFromPath(metadata)
           ELSE IF Truthy(experimentName) /\ Truthy(variantName)
           THEN Arr(<<experimentName, variantName>>)
           ELSE JNull

\* getExperimentDetails(evt): null or the array [experimentName, group]
getExperimentDetails(evt) ==
  IF ~Truthy(Get(evt, "user")) \/ ~Truthy(Get(evt, "metadata"))
     \/ TypeOf(Get(evt, "metadata")) # "object"
  THEN JNull
  ELSE LET metadata == Get(evt, "metadata")
           experimentName == Get(metadata, "statsig_experiment_name")
           variantName == Get(metadata, "statsig_variant_name")
       IN  IF Truthy(experimentName) /\ Truthy(variantName)
           THEN Arr(<<experimentName, variantName>>)
           ELSE ExperimentFromPath(metadata)

\* convertEventToExposure(evt): null or the exposure record
convertEventToExposure(evt) ==
  IF ~Truthy(Get(evt, "user")) THEN JNull
  ELSE LET expDetails == getExperimentDetails(evt)
       IN  IF ~Truthy(expDetails) \/ Len(expDetails.a) # 2 THEN JNull
           ELSE Obj([user |-> Get(evt, "user"),
                     experimentName |-> expDetails.a[1],
                     group |-> expDetails.a[2]])

RECURSIVE ExposureLoop(_, _, _)
\* the for loop of processExposures from index ii on
ExposureLoop(expEvents, ii, exposures) ==
  IF ii > Len(expEvents) THEN exposures
  ELSE LET exp == convertEventToExposure(expEvents[ii])
       IN  IF Truthy(exp)
           THEN ExposureLoop(expEvents, ii + 1, Append(exposures, exp))
           ELSE ExposureLoop(expEvents, ii + 1, exposures)

IsDelivered(evt) == Get(evt, "eventName") = JStr(Delivered)

\* processExposures without the test on exposures.length: it posts
\* whenever an event is delivered
processExposuresAlwaysPost(evs) ==
  LET expEvents == SelectSeq(evs, IsDelivered)
  IN  IF Len(expEvents) = 0 THEN [post |-> FALSE, exposures |-> <<>>]
      ELSE [post |-> TRUE, exposures |-> ExposureLoop(expEvents, 1, <<>>)]

\* processExposures(apiKey, events) up to its fetch: whether it posts, and
\* the exposures it posts
processExposures(evs) ==
  LET expEvents == SelectSeq(evs, IsDelivered)
  IN  IF Len(expEvents) = 0 THEN [post |-> FALSE, exposures |-> <<>>]
      ELSE LET exposures == ExposureLoop(expEvents, 1, <<>>)
           IN  [post |-> Len(exposures) > 0, exposures |-> exposures]

(***************************************************************************)
(* The requests of Spec.                                                   *)
(***************************************************************************)
EmailAB == <<"a", "@", "b">>
PathTest == <<"b", "/", "T", "E", "S", "T">>
PathControl == <<"b", "/", "c", "o", "n", "t", "r", "o", "l">>
Open == <<"o", "p", "e", "n">>

\* the elements a payload is made of
Items ==
  { JNull,
    JNum(5),
    Arr(<<>>),
    Obj([email |-> JStr(EmailAB)]),
    Obj([event |-> JStr(<<>>), email |-> JStr(EmailAB),
         singlesend_name |-> JStr(PathTest)]),
    Obj([event |-> JStr(Open), email |-> JStr(<<>>), timestamp |-> JNum(1),
         singlesend_name |-> JStr(PathTest)]),
    Obj([event |-> JStr(Delivered), email |-> JStr(EmailAB),
         timestamp |-> JNum(2), singlesend_name |-> JStr(PathTest)]),
    Obj([event |-> JStr(Delivered),
         statsig_experiment_name |-> JStr(<<"a">>),
         statsig_variant_name |-> JStr(<<"Z">>),
         singlesend_name |-> JStr(PathControl)]),
    Obj([event |-> JStr(Delivered), email |-> JNum(5), category |-> JNum(7)]),
    Obj([event |-> JNum(1), email |-> JStr(EmailAB),
         statsig_experiment_name |-> JStr(<<"a">>),
         statsig_variant_name |-> JStr(<<"Z">>)]),
    JStr(Delivered) }

SeqsUpTo(S, n) == UNION {[1..k -> S] : k \in 0..n}

Payloads == Items \cup {Arr(a) : a \in SeqsUpTo(Items, MaxBatch)}

\* what `await request.json()` does with the body: rejects, or the value
Unparseable == [parse |-> "error"]
Parsed(v) == [parse |-> "ok", v |-> v]
Bodies == {Unparseable} \cup {Parsed(v) : v \in Payloads}

Methods == {"GET", "POST"}
\* what url.searchParams.get('apikey') returns
ApiKeys == {JNull, JStr(<<>>), JStr(<<"k">>)}

\* how an outbound fetch settles
Outcomes == {"ok", "non2xx", "non2xx_text_rejects", "network_error"}

ReqIdle ==
  /\ method = "GET" /\ apikey = JNull /\ body = Unparseable
  /\ pc = "idle" /\ events = <<>> /\ calls = <<>>
  /\ response = 0 /\ logged = 0

(***************************************************************************)
(* fetch, processWebhook, logEvents, processExposures, postToScrapi.       *)
(***************************************************************************)
getApiKey == apikey

\* the fetch call postToScrapi issues
PostCall(endpoint, key, bodyObj) ==
  [endpoint |-> endpoint, apiKey |-> key, body |-> bodyObj,
   outcome |-> "pending"]

\* LogEventBody sending only the delivered events
LogEventBodyDelivered(evs) == [events |-> SelectSeq(evs, IsDelivered)]

\* the body logEvents hands to postToScrapi: { events }
LogEventBody(evs) == [events |-> evs]

\* the last call settles with outcome o
Settle(cs, o) == [cs EXCEPT ![Len(cs)].outcome = o]

\* console.log runs once for every outcome but a 2xx response
LogsFor(o) == IF o = "ok" THEN 0 ELSE 1

Respond(status) ==
  /\ response' = status
  /\ pc' = "done"

\* Fetch without the test on request.method
FetchAnyMethod ==
  /\ pc = "start"
  /\ IF ~Truthy(getApiKey) THEN Respond(401)
     ELSE pc' = "json" /\ UNCHANGED response
  /\ UNCHANGED <<method, apikey, body, events, calls, logged>>

\* fetch up to `await request.json()`
Fetch ==
  /\ pc = "start"
  /\ IF method # "POST" THEN Respond(405)
     ELSE IF ~Truthy(getApiKey) THEN Respond(401)
     ELSE pc' = "json" /\ UNCHANGED response
  /\ UNCHANGED <<method, apikey, body, events, calls, logged>>

\* request.json() settles; processWebhook runs up to the log_event fetch
BodyRead ==
  /\ pc = "json"
  /\ IF body.parse = "error"
     THEN Respond(400) /\ UNCHANGED <<events, calls>>
     ELSE LET conv == convertToStatsigEvents(body.v)
          IN  IF conv.threw
              THEN Respond(400) /\ UNCHANGED <<events, calls>>
              ELSE IF Len(conv.events) = 0
              THEN Respond(406) /\ events' = conv.events /\ UNCHANGED calls
              ELSE /\ events' = conv.events
                   /\ calls' = Append(calls,
                        PostCall("log_event", apikey, LogEventBody(conv.events)))
                   /\ pc' = "log_event"
                   /\ UNCHANGED response
  /\ UNCHANGED <<method, apikey, body, logged>>

\* the log_event fetch settles; processExposures runs up to its fetch, or,
\* when it posts nothing, processWebhook returns
LogEventSettled ==
  /\ pc = "log_event"
  /\ \E o \in Outcomes :
       /\ logged' = logged + LogsFor(o)
       /\ LET exp == processExposures(events)
          IN  IF exp.post
              THEN /\ calls' = Append(Settle(calls, o),
                        PostCall("log_custom_exposure", apikey,
                                 [exposures |-> exp.exposures]))
                   /\ pc' = "log_custom_exposure"
                   /\ UNCHANGED response
              ELSE /\ calls' = Settle(calls, o)
                   /\ Respond(200)
  /\ UNCHANGED <<method, apikey, body, events>>

\* ExposureSettled surfacing a failed call as a 502
ExposureSettledSurfaced ==
  /\ pc = "log_custom_exposure"
  /\ \E o \in Outcomes :
       /\ logged' = logged + LogsFor(o)
       /\ calls' = Settle(calls, o)
       /\ Respond(IF o = "ok" THEN 200 ELSE 502)
  /\ UNCHANGED <<method, apikey, body, events>>

\* the log_custom_exposure fetch settles; processWebhook returns
ExposureSettled ==
  /\ pc = "log_custom_exposure"
  /\ \E o \in Outcomes :
       /\ logged' = logged + LogsFor(o)
       /\ calls' = Settle(calls, o)
  /\ Respond(200)
  /\ UNCHANGED <<method, apikey, body, events>>

(***************************************************************************)
(* SpecExtract: getExperimentDetails as a function of its argument.        *)
(***************************************************************************)
Pending == [t |-> "pending"]

ExpNames == {Absent, JStr(<<>>), JStr(<<"e", "1">>), JNum(7)}
VarNames == {Absent, JStr(<<>>), JStr(<<"v", "2">>), JStr(<<"T", "E", "S", "T">>)}
PathNames ==
  { Absent, JNum(5), JStr(<<>>),
    JStr(<<"e", "2", "/", "T", "E", "S", "T">>),
    JStr(<<"e", "2", "/", "t", "e", "s", "t">>),
    JStr(<<"e", "2", "/", "C", "o", "n", "T", "R", "O", "L">>),
    JStr(<<"E", "2", "/", "O", "t", "h", "e", "r">>),
    JStr(<<"e", "1", "/", "a", "/", "b">>),
    JStr(<<"e", "2">>),
    JStr(<<"/", "t", "e", "s", "t">>),
    JStr(<<"e", "2", "/">>) }

\* the object with the given fields, the Absent ones left out
ObjOf(f) == Obj([k \in {x \in DOMAIN f : f[x] # Absent} |-> f[k]])

MetadataInputs ==
  {Absent, JStr(<<"m">>)} \cup
  { ObjOf([statsig_experiment_name |-> e, statsig_variant_name |-> v,
           singlesend_name |-> p]) :
      e \in ExpNames, v \in VarNames, p \in PathNames }

ExtractInputs ==
  { ObjOf([user |-> u, metadata |-> m]) :
      u \in {Absent, UserOf(UnknownId, Absent)}, m \in MetadataInputs }

ExtIdle == xevt = JNull /\ xres = JNull

Extract ==
  /\ xres = Pending
  /\ xres' = getExperimentDetails(xevt)
  /\ UNCHANGED xevt

(***************************************************************************)
(* SpecHash: getHash statement by statement.                               *)
(***************************************************************************)
HashAlphabet == {"a", "b", "@", "Z"}

HashInputs ==
  {Absent, JNum(123)} \cup {JStr(s) : s \in SeqsUpTo(HashAlphabet, MaxLen)}

Zero == <<0, 0>>

HashIdle ==
  /\ htext = Absent /\ hidx = 0 /\ h1 = Zero /\ h2 = Zero
  /\ h1pre = Zero /\ h2pre = Zero /\ hpc = "idle" /\ hres = <<>>

\* the typeof test and the initialisation of h1, h2
HashEnter ==
  /\ hpc = "entry"
  /\ IF ~IsStr(htext)
     THEN hres' = UnknownId /\ hpc' = "returned" /\ UNCHANGED <<h1, h2>>
     ELSE /\ h1' = Xor(H1Init, Seed)
          /\ h2' = Xor(H2Init, Seed)
          /\ hpc' = "loop"
          /\ UNCHANGED hres
  /\ UNCHANGED <<htext, hidx, h1pre, h2pre>>

\* one iteration of the for loop
HashIterate ==
  /\ hpc = "loop"
  /\ hidx < Len(htext.s)
  /\ LET n == HashLoopStep(h1, h2, CharCode(htext.s[hidx + 1]))
     IN  h1' = n[1] /\ h2' = n[2]
  /\ hidx' = hidx + 1
  /\ UNCHANGED <<htext, h1pre, h2pre, hpc, hres>>

\* the two assignments after the loop; h1pre, h2pre keep what they read
HashMix ==
  /\ hpc = "loop"
  /\ hidx >= Len(htext.s)
  /\ h1pre' = h1
  /\ h2pre' = h2
  /\ LET m == FinalMix(h1, h2)
     IN  h1' = m[1] /\ h2' = m[2]
  /\ hpc' = "mixed"
  /\ UNCHANGED <<htext, hidx, hres>>

\* the return statement
HashReturn ==
  /\ hpc = "mixed"
  /\ hres' = HashToString(h1, h2)
  /\ hpc' = "returned"
  /\ UNCHANGED <<htext, hidx, h1, h2, h1pre, h2pre>>

(***************************************************************************)
(* Specifications.                                                         *)
(***************************************************************************)
Init ==
  /\ method \in Methods
  /\ apikey \in ApiKeys
  /\ body \in Bodies
  /\ pc = "start"
  /\ events = <<>>
  /\ calls = <<>>
  /\ response = 0
  /\ logged = 0
  /\ ExtIdle
  /\ HashIdle

Next ==
  \/ Fetch /\ UNCHANGED <<extVars, hashVars>>
  \/ BodyRead /\ UNCHANGED <<extVars, hashVars>>
  \/ LogEventSettled /\ UNCHANGED <<extVars, hashVars>>
  \/ ExposureSettled /\ UNCHANGED <<extVars, hashVars>>

Spec == Init /\ [][Next]_vars

InitExtract ==
  /\ xevt \in ExtractInputs
  /\ xres = Pending
  /\ ReqIdle
  /\ HashIdle

NextExtract == Extract /\ UNCHANGED <<reqVars, hashVars>>

SpecExtract == InitExtract /\ [][NextExtract]_vars

InitHash ==
  /\ htext \in HashInputs
  /\ hidx = 0
  /\ h1 = Zero /\ h2 = Zero /\ h1pre = Zero /\ h2pre = Zero
  /\ hpc = "entry"
  /\ hres = <<>>
  /\ ReqIdle
  /\ ExtIdle

NextHash ==
  \/ HashEnter /\ UNCHANGED <<reqVars, extVars>>
  \/ HashIterate /\ UNCHANGED <<reqVars, extVars>>
  \/ HashMix /\ UNCHANGED <<reqVars, extVars>>
  \/ HashReturn /\ UNCHANGED <<reqVars, extVars>>

SpecHash == InitHash /\ [][NextHash]_vars

(***************************************************************************)
(* What the specification says the pipeline computes, stated on its own.   *)
(***************************************************************************)
\* an element the specification calls convertible: object-shaped, with a
\* truthy event field
IsConvertible(item) == item.t = "object" /\ Truthy(Get(item, "event"))

ElementsOf(payload) == IF payload.t = "array" THEN payload.a ELSE <<payload>>

\* the conversions of the convertible elements, in their order
ExpectedEvents(payload) ==
  LET kept == SelectSeq(ElementsOf(payload), IsConvertible)
  IN  [i \in 1..Len(kept) |-> convertSingleEvent(kept[i])]

\* a delivered event whose extraction succeeds
IsExposed(evt) == IsDelivered(evt) /\ getExperimentDetails(evt) # JNull

\* one record {user, experimentName, group} per such event, in batch order
ExpectedExposures(evs) ==
  LET kept == SelectSeq(evs, IsExposed)
  IN  [i \in 1..Len(kept) |->
         Obj([user |-> kept[i].f.user,
              experimentName |-> getExperimentDetails(kept[i]).a[1],
              group |-> getExperimentDetails(kept[i]).a[2]])]

IsLogEvent(c) == c.endpoint = "log_event"
IsLogExposure(c) == c.endpoint = "log_custom_exposure"

\* a POST that passed the key check and whose body parsed
Accepted == method = "POST" /\ Truthy(apikey) /\ body.parse = "ok"

(***************************************************************************)
(* Claims about one request (Spec).                                        *)
(***************************************************************************)
\* C1: for a POST with an apikey whose body parses as JSON, a payload with
\* no convertible element is answered 406, and 400 is answered only when
\* the body cannot be parsed.
C1_ParseableEmptyIs406 ==
  (pc = "done" /\ Accepted) =>
    /\ (ExpectedEvents(body.v) = <<>> => response = 406)
    /\ response # 400

\* C2: a non-POST request gets 405, a POST without an apikey gets 401, a
\* POST with an apikey and an unparseable body gets 400; such a request is
\* never converted and no outbound call is ever issued for it.
C2_ShapeErrorsRejected ==
  /\ (method # "POST" \/ ~Truthy(apikey) \/ body.parse = "error") =>
       calls = <<>> /\ events = <<>> /\ logged = 0
  /\ (pc = "done" /\ method # "POST") => response = 405
  /\ (pc = "done" /\ method = "POST" /\ ~Truthy(apikey)) => response = 401
  /\ (pc = "done" /\ method = "POST" /\ Truthy(apikey)
        /\ body.parse = "error") => response = 400

C2_Witness ==
  /\ pc = "done" /\ method = "POST" /\ Truthy(apikey)
  /\ body.parse = "error" /\ response = 400 /\ calls = <<>>

\* C3: once conversion has returned at least one event the response is 200;
\* no response exists while an outbound call is in flight; the 200 is
\* produced with every issued call settled, the exposure call included when
\* processExposures posts; however the calls settled, nothing but 200 is
\* returned.
C3_SuccessAfterForwarding ==
  /\ (pc \in {"log_event", "log_custom_exposure"}) => response = 0
  /\ (pc = "done" /\ events # <<>>) => response = 200
  /\ response = 200 =>
       /\ events # <<>>
       /\ Len(calls) = (IF processExposures(events).post THEN 2 ELSE 1)
       /\ IsLogEvent(calls[1])
       /\ \A i \in 1..Len(calls) : calls[i].outcome \in Outcomes

C3_Witness ==
  /\ response = 200 /\ Len(calls) = 2
  /\ calls[1].outcome = "network_error"
  /\ calls[2].outcome = "non2xx"

\* C4: when conversion returned a non-empty list, exactly one log_event
\* call is issued, it is the first call, its body is the list of the
\* converted events in conversion order, and no further log_event call
\* follows whatever its outcome; otherwise none is issued.
C4_OneLogEventCall ==
  LET le == SelectSeq(calls, IsLogEvent)
  IN  /\ Len(le) <= 1
      /\ (events = <<>>) => Len(le) = 0
      /\ (events # <<>>) =>
           /\ Len(le) = 1
           /\ IsLogEvent(calls[1])
           /\ calls[1].apiKey = apikey
           /\ calls[1].body = [events |-> ExpectedEvents(body.v)]

C4_Witness ==
  /\ pc = "done" /\ Len(events) = 2
  /\ ~IsDelivered(events[1]) /\ IsDelivered(events[2])
  /\ calls[1].body.events = events
  /\ calls[1].outcome = "network_error"
  /\ Len(SelectSeq(calls, IsLogEvent)) = 1

\* C5: the log_custom_exposure call is issued at most once; once the
\* request is answered it has been issued exactly when some converted event
\* is delivered and its extraction succeeds, whatever the outcome of the
\* log_event call; its body holds one record {user, experimentName, group}
\* per such event, in batch order, and nothing else.
C5_ExposureCall ==
  LET ex == SelectSeq(calls, IsLogExposure)
  IN  /\ Len(ex) <= 1
      /\ pc = "done" =>
           (Len(ex) = 1 <=> \E i \in 1..Len(events) : IsExposed(events[i]))
      /\ Len(ex) = 1 =>
           /\ ex[1].body = [exposures |-> ExpectedExposures(events)]
           /\ ex[1].body.exposures # <<>>
           /\ ex[1].apiKey = apikey

C5_Witness ==
  /\ pc = "done" /\ Len(calls) = 2 /\ IsLogExposure(calls[2])
  /\ calls[1].outcome = "network_error"
  /\ Len(events) = 2
  /\ IsDelivered(events[1]) /\ ~IsExposed(events[1])
  /\ IsExposed(events[2])
  /\ Len(calls[2].body.exposures) = 1

\* C6: for every payload that parses, conversion completes without an
\* exception and the event list is exactly the conversions of the elements
\* that are object-shaped with a truthy event field, in their order.
C6_BatchNeverFails ==
  (pc \notin {"start", "json"} /\ Accepted) =>
    /\ ~convertToStatsigEvents(body.v).threw
    /\ events = ExpectedEvents(body.v)

\* C9: every converted event has a user {userID, email, customIDs:
\* {stableID}} with userID and customIDs.stableID present, equal, and equal
\* to the hash of the raw email.
C9_UserShape ==
  \A i \in 1..Len(events) :
    LET u == events[i].f.user
    IN  /\ Truthy(Get(u, "userID"))
        /\ Truthy(Get(u, "customIDs"))
        /\ Get(Get(u, "customIDs"), "stableID") = Get(u, "userID")
        /\ Get(u, "userID") = JStr(getHash(Get(u, "email")))

(***************************************************************************)
(* Claims about getExperimentDetails (SpecExtract).                        *)
(***************************************************************************)
XMeta == Get(xevt, "metadata")
XExp == Get(XMeta, "statsig_experiment_name")
XVar == Get(XMeta, "statsig_variant_name")
XPath == Get(XMeta, "singlesend_name")
\* the argument passes the guard on user and metadata
XGuard == Truthy(Get(xevt, "user")) /\ XMeta.t = "object"
XPrimary == Truthy(XExp) /\ Truthy(XVar)

\* C7: with a user and an object metadata whose statsig_experiment_name and
\* statsig_variant_name are both truthy, the result is exactly that pair,
\* the group verbatim, whatever singlesend_name holds.
C7_PrimaryPrecedence ==
  (xres # Pending /\ XGuard /\ XPrimary) => xres = Arr(<<XExp, XVar>>)

C7_Witness ==
  /\ xres = Arr(<<JStr(<<"e", "1">>), JStr(<<"T", "E", "S", "T">>)>>)
  /\ XPath = JStr(<<"e", "2", "/", "t", "e", "s", "t">>)

SlashCount(s) == Cardinality({i \in 1..Len(s) : s[i] = Slash})

\* the group the fallback gives a lower-cased second segment
MappedVariant(l) ==
  IF l = TestLower THEN TestName
  ELSE IF l = ControlLower THEN ControlName
  ELSE l

\* C8: on the fallback path extraction fails when singlesend_name is absent
\* or not a string, or does not hold exactly one "/"; otherwise it returns
\* the text before the "/" unchanged and the text after it lower-cased, with
\* test -> Test and control -> Control.
C8_FallbackPath ==
  (xres # Pending /\ XGuard /\ ~XPrimary) =>
    IF ~IsStr(XPath) \/ SlashCount(XPath.s) # 1 THEN xres = JNull
    ELSE LET k == CHOOSE i \in 1..Len(XPath.s) : XPath.s[i] = Slash
             first == SubSeq(XPath.s, 1, k - 1)
             second == SubSeq(XPath.s, k + 1, Len(XPath.s))
         IN  xres = Arr(<<JStr(first),
                          JStr(MappedVariant(ToLowerCase(second)))>>)

C8_Witness ==
  /\ ~XPrimary
  /\ XPath = JStr(<<"E", "2", "/", "O", "t", "h", "e", "r">>)
  /\ xres = Arr(<<JStr(<<"E", "2">>), JStr(<<"o", "t", "h", "e", "r">>)>>)

(***************************************************************************)
(* Claims about getHash (SpecHash).                                        *)
(***************************************************************************)
HexValue(c) == (CHOOSE i \in 1..16 : HexDigits[i] = c) - 1

RECURSIVE HexNumber(_)
\* the number a string of at most six hexadecimal digits denotes
HexNumber(s) ==
  IF s = <<>> THEN 0
  ELSE 16 * HexNumber(SubSeq(s, 1, Len(s) - 1)) + HexValue(s[Len(s)])

\* s is the hexadecimal form, without padding, of 4294967296 * high + the
\* 32-bit word low
IsHexOf(s, high, low) ==
  /\ Len(s) \in 1..14
  /\ \A i \in 1..Len(s) : \E j \in 1..16 : HexDigits[j] = s[i]
  /\ Len(s) > 1 => s[1] # "0"
  /\ LET padded == [i \in 1..(14 - Len(s)) |-> "0"] \o s
     IN  /\ HexNumber(SubSeq(padded, 1, 6)) = high
         /\ HexNumber(SubSeq(padded, 7, 10)) = low[1]
         /\ HexNumber(SubSeq(padded, 11, 14)) = low[2]

HashMixed == hpc \in {"mixed", "returned"} /\ IsStr(htext)

\* C10 as stated: the new h2 is the mix of the pre-mix h2 with the h1 from
\* before h1's own final-mix update.
C10_H2FromPreMixH1 ==
  HashMixed => h2 = MixLane(h2pre, h1pre)

\* C10 amended: h1 is the mix of the pre-mix pair, the new h2 is
\* imul(h2 ^ (h2 >>> 16), 2246822507) ^ imul(h1 ^ (h1 >>> 13), 3266489909)
\* with the h1 the first assignment has just written; every value is a
\* 32-bit word and the result is the hexadecimal form of
\* 4294967296 * (h2 & 0x1FFFFF) + h1.
C10_H2FromUpdatedH1 ==
  /\ IsWord(h1) /\ IsWord(h2)
  /\ HashMixed =>
       /\ h1 = MixLane(h1pre, h2pre)
       /\ h2 = MixLane(h2pre, h1)
  /\ (hpc = "returned" /\ IsStr(htext)) =>
       IsHexOf(hres, (h2[1] % 32) * 65536 + h2[2], h1)

C10_Witness ==
  /\ hpc = "returned" /\ IsStr(htext) /\ Len(htext.s) = 2
  /\ h2 # MixLane(h2pre, h1pre)
  /\ hres # UnknownId

====
